---- MODULE Spec2Model ----
(***************************************************************************)
(* Model of rosetta-stone-ez.py: one run of RosettaStone.__init__, from    *)
(* authentication through course discovery, the time budget and the        *)
(* lesson / activity / step / fragment loops that post AddProgress         *)
(* mutations.  Server responses are the inputs: each is drawn from a       *)
(* small set when the request that receives it is issued.  Every request   *)
(* is answered (no transport exception) and every body parses; the attempt *)
(* ids and the timestamp of a payload are left out.                        *)
(*                                                                         *)
(* Durations: the code computes in floating-point hours and converts with  *)
(* int(hours * 60 * 60 * 1000).  The model computes exactly, in            *)
(* milliseconds, with rationals [num, den]; int() is truncation.           *)
(* Percentages are in hundredths (0.2 is 20).                              *)
(***************************************************************************)
EXTENDS Integers, Sequences, FiniteSets, TLC

(***************************************************************************)
(* Bounds and input sets                                                   *)
(***************************************************************************)
\* largest number of cards in a vocabulary carousel
MaxCards == 2
\* random.uniform(0., 0.1) is drawn from the grid j / (10 * JitterSteps), j in 0..JitterSteps
JitterSteps == 2
\* longest progress report (entries) the server returns
MaxProgress == 2

\* threshold: float = 0.2, in hundredths
Threshold == 20
\* HTTP success
StatusOk == 200

StatusCodes == {200, 500}
\* hours_todo, as a number of milliseconds (hours_todo * 3,600,000)
HoursTodoMs == {10, 7200}
PercentValues == {20, 21}
CourseIds == {"c1", "c2"}
LessonIds == {"l1", "l2"}

\* every sequence over S of length at most n
SeqUpTo(S, n) == UNION {[1..k -> S] : k \in 0..n}

(***************************************************************************)
(* format_answers                                                          *)
(***************************************************************************)
\* Python's None: a value with none of the keys of a plan
None == [none |-> TRUE]

\* a slip: only the first row of the carousel is read
FlattenCarousel_FirstRow(carousel) ==
    IF carousel = <<>> THEN <<>> ELSE Head(carousel)

RECURSIVE FlattenCarousel(_)
\* for item in carousel: for card in item: cards.append(card)
FlattenCarousel(carousel) ==
    IF carousel = <<>> THEN <<>>
    ELSE Head(carousel) \o FlattenCarousel(Tail(carousel))

\* [{"answer": answer, "correct": True} for answer in step["correct"]]
CorrectAnswers(step) ==
    [i \in 1..Len(step.correct) |-> [answer |-> step.correct[i], correct |-> TRUE]]

\* [{"answer": f"SS:{card['id']}:1:false", "correct": True} for card in cards]
CardAnswers(cards) ==
    [i \in 1..Len(cards) |->
        [answer |-> "SS:" \o cards[i].id \o ":1:false", correct |-> TRUE]]

NonCardTitle(type) ==
    IF type = "multipleChoice" THEN "Choix multiple"
    ELSE IF type = "sequencing" THEN "Organiser"
    ELSE IF type = "cloze" THEN "Remplissez les blancs"
    ELSE "Module inconnu"

format_answers(step) ==
    IF step.type = "card"
    THEN IF "additionalContent" \in DOMAIN step.content[1]
         THEN [fragmented |-> FALSE, answers |-> CorrectAnswers(step),
               title |-> "Démonstration"]
         ELSE IF "carousel" \in DOMAIN step.content[1]
         THEN [fragmented |-> TRUE,
               answers |-> CardAnswers(FlattenCarousel(step.content[1].carousel)),
               title |-> "Vocabulaire"]
         ELSE None
    ELSE [fragmented |-> FALSE, answers |-> CorrectAnswers(step),
          title |-> NonCardTitle(step.type)]

(***************************************************************************)
(* get_lesson_progress and the filter of _get_courses                      *)
(***************************************************************************)
RECURSIVE FindSequence(_, _, _)
\* for sequence in course['sequences']: if sequence['id'] == lesson_id: return ...
\* the index of the first match from j on, 0 if none
FindSequence(sequences, lesson_id, j) ==
    IF j > Len(sequences) THEN 0
    ELSE IF sequences[j].id = lesson_id THEN j
    ELSE FindSequence(sequences, lesson_id, j + 1)

RECURSIVE ScanProgress(_, _, _, _)
ScanProgress(progress, i, course_id, lesson_id) ==
    IF i > Len(progress) THEN 0
    ELSE IF progress[i].courseId # course_id
         THEN ScanProgress(progress, i + 1, course_id, lesson_id)
         ELSE LET j == FindSequence(progress[i].sequences, lesson_id, 1)
              IN IF j # 0 THEN progress[i].sequences[j].percentComplete
                 ELSE ScanProgress(progress, i + 1, course_id, lesson_id)

get_lesson_progress(progress, course_id, lesson_id) ==
    ScanProgress(progress, 1, course_id, lesson_id)

\* slugify(lesson['title']) on the titles the model uses
Slugify(title) ==
    IF title = "Lesson l1" THEN "lesson-l1"
    ELSE IF title = "Lesson l2" THEN "lesson-l2"
    ELSE "lesson"

\* a slip: < for <=
LessonToDo_Strict(progress, course_id, lesson) ==
    get_lesson_progress(progress, course_id, lesson.id) < Threshold

\* if get_lesson_progress(progress, course_id, lesson['id']) <= self.threshold
LessonToDo(progress, course_id, lesson) ==
    get_lesson_progress(progress, course_id, lesson.id) <= Threshold

RECURSIVE FilterLessons(_, _, _)
FilterLessons(progress, course_id, sequences) ==
    IF sequences = <<>> THEN <<>>
    ELSE LET lesson == Head(sequences)
             rest == FilterLessons(progress, course_id, Tail(sequences))
         IN IF LessonToDo(progress, course_id, lesson)
            THEN <<[id |-> lesson.id, title |-> lesson.title,
                    slug |-> Slugify(lesson.title)]>> \o rest
            ELSE rest

RECURSIVE FilterCourses(_, _)
\* courses[course_id] = {...} only if len(lessons) > 0; a dict keeps insertion order
FilterCourses(progress, assigned) ==
    IF assigned = <<>> THEN <<>>
    ELSE LET course == Head(assigned)
             lessons == FilterLessons(progress, course.courseId, course.sequences)
             rest == FilterCourses(progress, Tail(assigned))
         IN IF Len(lessons) > 0
            THEN <<[courseId |-> course.courseId, title |-> course.title,
                    lessons |-> lessons]>> \o rest
            ELSE rest

RECURSIVE CountLessons(_)
\* for course in self.courses: count_lessons += len(self.courses[course]['lessons'])
CountLessons(cs) ==
    IF cs = <<>> THEN 0 ELSE Len(Head(cs).lessons) + CountLessons(Tail(cs))

(***************************************************************************)
(* What the server may answer                                              *)
(***************************************************************************)
Lesson(id) == [id |-> id, title |-> "Lesson " \o id]

\* the lesson lists of an assigned course
LessonLists ==
    {<<>>, <<Lesson("l1"), Lesson("l2")>>, <<Lesson("l2"), Lesson("l1")>>}

AssignedCourse(id, lessons) ==
    [courseId |-> id, title |-> "Course " \o id, sequences |-> lessons]

\* assignedCourses: courses with distinct ids, in any order
AssignedLists ==
    {<<>>}
    \cup {<<AssignedCourse(c, ls)>> : c \in CourseIds, ls \in LessonLists}
    \cup {cs \in {<<AssignedCourse(c, ls), AssignedCourse(d, ms)>> :
                     c \in CourseIds, d \in CourseIds,
                     ls \in LessonLists, ms \in LessonLists} :
            cs[1].courseId # cs[2].courseId}

Reported == [id : LessonIds, percentComplete : PercentValues]

Rep(l, p) == [id |-> l, percentComplete |-> p]

\* the sequences of one progress entry: none, one lesson, or two lessons of which
\* the first is over the threshold
ReportedLists ==
    {<<>>} \cup {<<r>> : r \in Reported}
    \cup {<<Rep("l1", 21), Rep("l2", 20)>>, <<Rep("l2", 21), Rep("l1", 20)>>,
          <<Rep("l1", 21), Rep("l2", 21)>>}

ProgressEntries == [courseId : CourseIds, sequences : ReportedLists]

\* every getCoursesAndProgress body within the bounds
AllDiscovery ==
    [assignedCourses : AssignedLists, progress : SeqUpTo(ProgressEntries, MaxProgress)]

Entry(c, reported) == [courseId |-> c, sequences |-> reported]
\* the bodies used when the whole run is explored: three lessons in two courses,
\* with reports that leave three, two, one and none of them to do
RunAssigned ==
    <<AssignedCourse("c1", <<Lesson("l1"), Lesson("l2")>>),
      AssignedCourse("c2", <<Lesson("l1")>>)>>

RunDiscovery ==
    {[assignedCourses |-> RunAssigned, progress |-> p] :
        p \in {<<>>,
               <<Entry("c1", <<Rep("l1", 21)>>)>>,
               <<Entry("c1", <<Rep("l1", 21), Rep("l2", 21)>>)>>,
               <<Entry("c2", <<Rep("l1", 21)>>),
                 Entry("c1", <<Rep("l2", 21), Rep("l1", 21)>>)>>}}
    \cup {[assignedCourses |-> <<>>, progress |-> <<>>]}

Card(i) == [id |-> "k" \o ToString(i)]

RECURSIVE Rows(_, _, _)
\* cards from..k laid out in rows of g
Rows(from, k, g) ==
    IF from > k THEN <<>>
    ELSE <<[i \in 1..(IF from + g - 1 <= k THEN g ELSE k - from + 1) |->
              Card(from + i - 1)]>>
         \o Rows(from + g, k, g)

\* carousels of 0..MaxCards cards, in rows of one or of two
Carousels == {Rows(1, k, g) : k \in 0..MaxCards, g \in 1..2}

Demo(id, correct) ==
    [type |-> "card", content |-> <<[additionalContent |-> "video"]>>,
     correct |-> correct, activityStepId |-> id]
Vocabulary(id, carousel) ==
    [type |-> "card", content |-> <<[carousel |-> carousel]>>,
     correct |-> <<>>, activityStepId |-> id]
\* a card that is neither: Grammar or Pronunciation
OtherCard(id, correct) ==
    [type |-> "card", content |-> <<[text |-> "grammar"]>>,
     correct |-> correct, activityStepId |-> id]
NonCard(type, id, correct) ==
    [type |-> type, content |-> <<>>, correct |-> correct, activityStepId |-> id]

Activity(id, steps) == [activityId |-> id, steps |-> steps]

\* the activities a getSequence body may list
LessonTrees ==
    {<<>>}
    \cup {<<Activity("a1", <<NonCard("multipleChoice", "s1", <<"b", "a">>),
                             Vocabulary("s2", c)>>),
            Activity("a2", <<NonCard("cloze", "s3", <<"x">>)>>)>> : c \in Carousels}
    \cup {<<Activity("a1", <<>>),
            Activity("a2", <<Demo("s1", <<"seen">>),
                             NonCard("sequencing", "s2", <<"2", "1", "3">>)>>)>>,
          <<Activity("a1", <<NonCard("dragAndDrop", "s1", <<>>),
                             OtherCard("s2", <<"x">>),
                             NonCard("multipleChoice", "s3", <<"a">>)>>)>>}

\* a submission's response: transport status, and whether the body has 'errors'
Responses == [status : StatusCodes, errors : BOOLEAN]

(***************************************************************************)
(* State                                                                   *)
(***************************************************************************)
VARIABLES
    pc,                 \* where the run is: "authenticate", "get_courses",
                        \* "calculate_hours", "lesson", "step", "fragment",
                        \* "exit" (exit() was called), "done", "crash"
    exit_code,          \* the process's exit status, -1 while it runs
    raised,             \* the uncaught exception that ended the run, "" if none
    issued,             \* how many requests of each operation were posted
    rep_status,         \* rep.status_code of the token and discovery calls, 0 before
    hours_todo,         \* self.hours_todo, in milliseconds
    rep_json,           \* the discovery body, while _get_courses holds it
    courses,            \* self.courses, in insertion order
    hours_per_lesson,   \* self.hours_per_lesson
    version,            \* self.version, -1 before line 126 sets it
    ci, li,             \* the loops of __init__: course and lesson index
    visited,            \* the lessons _complete_lesson was called for, in order
    activities,         \* _complete_lesson: the activities of the lesson
    hours_per_activity,
    ai, si,             \* the loops of _complete_lesson: activity and step index
    step,               \* the step _complete_step was last called with
    random_hours,
    plan,               \* _complete_step: formatted_answers
    time_to_answer,
    fi,                 \* _complete_step: index of the next fragment
    success,            \* _complete_step: the flag it folds, and then returns
    stepState,          \* the last call of _complete_step: "none", "running",
                        \* "returned" or "raised"
    stepReqs,           \* the payloads that call posted, in order
    stepResps,          \* the responses to them
    sent                \* the submissions of the current lesson, in order

vars ==
    <<pc, exit_code, raised, issued, rep_status, hours_todo, rep_json, courses,
      hours_per_lesson, version, ci, li, visited, activities, hours_per_activity,
      ai, si, step, random_hours, plan, time_to_answer, fi, success, stepState,
      stepReqs, stepResps, sent>>

lessonVars == <<activities, hours_per_activity, ai, si, sent>>
stepVars ==
    <<step, random_hours, plan, time_to_answer, fi, success, stepState, stepReqs,
      stepResps>>

NoStep == [type |-> "none", content |-> <<>>, correct |-> <<>>, activityStepId |-> ""]
NoHours == [num |-> 0, den |-> 1]
NoBody == [assignedCourses |-> <<>>, progress |-> <<>>]

Init ==
    /\ pc = "authenticate"
    /\ exit_code = -1
    /\ raised = ""
    /\ issued = [token |-> 0, discovery |-> 0, getSequence |-> 0, AddProgress |-> 0]
    /\ rep_status = [token |-> 0, discovery |-> 0]
    /\ hours_todo \in HoursTodoMs
    /\ rep_json = NoBody
    /\ courses = <<>>
    /\ hours_per_lesson = NoHours
    /\ version = -1
    /\ ci = 1 /\ li = 1
    /\ visited = <<>>
    /\ activities = <<>>
    /\ hours_per_activity = NoHours
    /\ ai = 1 /\ si = 1
    /\ step = NoStep
    /\ random_hours = NoHours
    /\ plan = None
    /\ time_to_answer = NoHours
    /\ fi = 1
    /\ success = TRUE
    /\ stepState = "none"
    /\ stepReqs = <<>>
    /\ stepResps = <<>>
    /\ sent = <<>>

(***************************************************************************)
(* _authenticate                                                           *)
(***************************************************************************)
\* a slip: the status of the token response is not looked at
AuthOutcome_IgnoresStatus(status) == [pc |-> "get_courses", exit_code |-> -1]

\* if rep.status_code != 200: exit(1)
AuthOutcome(status) ==
    IF status # StatusOk THEN [pc |-> "exit", exit_code |-> 1]
    ELSE [pc |-> "get_courses", exit_code |-> -1]

Authenticate ==
    /\ pc = "authenticate"
    /\ \E status \in StatusCodes :
         /\ issued' = [issued EXCEPT !.token = @ + 1]
         /\ rep_status' = [rep_status EXCEPT !.token = status]
         /\ pc' = AuthOutcome(status).pc
         /\ exit_code' = AuthOutcome(status).exit_code
    /\ UNCHANGED <<raised, hours_todo, rep_json, courses, hours_per_lesson, version,
                   ci, li, visited, lessonVars, stepVars>>

(***************************************************************************)
(* _get_courses                                                            *)
(***************************************************************************)
\* a slip: an empty result is returned like any other
DiscoveryOutcome_IgnoresEmpty(status, found) ==
    IF status # StatusOk THEN [pc |-> "exit", exit_code |-> 1]
    ELSE [pc |-> "calculate_hours", exit_code |-> -1]

\* if rep.status_code != 200: exit(1) ... if len(courses) == 0: exit(0)
DiscoveryOutcome(status, found) ==
    IF status # StatusOk THEN [pc |-> "exit", exit_code |-> 1]
    ELSE IF Len(found) = 0 THEN [pc |-> "exit", exit_code |-> 0]
    ELSE [pc |-> "calculate_hours", exit_code |-> -1]

\* bodies: the discovery bodies the server may answer with
GetCourses(bodies) ==
    /\ pc = "get_courses"
    /\ \E status \in StatusCodes, body \in bodies :
         LET found == IF status = StatusOk
                      THEN FilterCourses(body.progress, body.assignedCourses)
                      ELSE <<>>
         IN /\ issued' = [issued EXCEPT !.discovery = @ + 1]
            /\ rep_status' = [rep_status EXCEPT !.discovery = status]
            /\ rep_json' = IF status = StatusOk THEN body ELSE NoBody
            /\ courses' = found
            /\ pc' = DiscoveryOutcome(status, found).pc
            /\ exit_code' = DiscoveryOutcome(status, found).exit_code
    /\ UNCHANGED <<raised, hours_todo, hours_per_lesson, version, ci, li, visited,
                   lessonVars, stepVars>>

(***************************************************************************)
(* The loops                                                               *)
(***************************************************************************)
RECURSIVE SeekLesson(_, _, _)
\* for course_id, infos in self.courses.items(): for lesson in infos['lessons']:
\* the first lesson at or after (c, l), or <<Len(cs) + 1, 1>>
SeekLesson(cs, c, l) ==
    IF c > Len(cs) THEN <<c, 1>>
    ELSE IF l > Len(cs[c].lessons) THEN SeekLesson(cs, c + 1, 1)
    ELSE <<c, l>>

RECURSIVE SeekStep(_, _, _)
\* for activity in activities: for step in activity["steps"]:
SeekStep(acts, a, s) ==
    IF a > Len(acts) THEN <<a, 1>>
    ELSE IF s > Len(acts[a].steps) THEN SeekStep(acts, a + 1, 1)
    ELSE <<a, s>>

\* an uncaught exception ends the run
Raise(e) ==
    /\ pc' = "crash"
    /\ raised' = e
    /\ exit_code' = 1

\* _complete_lesson returns: the loops of __init__ move on, or end
LessonReturns ==
    LET nxt == SeekLesson(courses, ci, li + 1)
    IN /\ ci' = nxt[1]
       /\ li' = nxt[2]
       /\ ai' = 1
       /\ si' = 1
       /\ pc' = IF nxt[1] <= Len(courses) THEN "lesson" ELSE "done"
       /\ exit_code' = IF nxt[1] <= Len(courses) THEN exit_code ELSE 0
       /\ UNCHANGED raised

\* _complete_step returns: the loops of _complete_lesson move on, or end
StepReturns ==
    LET pos == SeekStep(activities, ai, si + 1)
    IN IF pos[1] <= Len(activities)
       THEN /\ pc' = "step"
            /\ ai' = pos[1]
            /\ si' = pos[2]
            /\ UNCHANGED <<ci, li, exit_code, raised>>
       ELSE LessonReturns

(***************************************************************************)
(* _calculate_hours, and line 126                                          *)
(***************************************************************************)
CalculateHours ==
    /\ pc = "calculate_hours"
    /\ rep_json' = NoBody
    /\ IF CountLessons(courses) = 0
       THEN /\ Raise("ZeroDivisionError")
            /\ UNCHANGED <<hours_per_lesson, version, ci, li>>
       ELSE /\ hours_per_lesson' = [num |-> hours_todo, den |-> CountLessons(courses)]
            /\ version' = 1
            /\ LET nxt == SeekLesson(courses, 1, 1)
               IN /\ ci' = nxt[1]
                  /\ li' = nxt[2]
                  /\ pc' = IF nxt[1] <= Len(courses) THEN "lesson" ELSE "done"
                  /\ exit_code' = IF nxt[1] <= Len(courses) THEN exit_code ELSE 0
            /\ UNCHANGED raised
    /\ UNCHANGED <<issued, rep_status, hours_todo, courses, visited, lessonVars,
                   stepVars>>

(***************************************************************************)
(* _complete_lesson                                                        *)
(***************************************************************************)
\* hours_per_activity = self.hours_per_lesson / len(activities)
HoursPerActivity(hpl, acts) == [num |-> hpl.num, den |-> hpl.den * Len(acts)]

\* a slip: random.uniform(0., 0.2)
RandomHours_WideJitter(hpa, j) ==
    [num |-> hpa.num * (5 * JitterSteps + j), den |-> hpa.den * 5 * JitterSteps]

\* hours_per_activity + hours_per_activity * random.uniform(0., 0.1),
\* the draw being j / (10 * JitterSteps)
RandomHours(hpa, j) ==
    [num |-> hpa.num * (10 * JitterSteps + j), den |-> hpa.den * 10 * JitterSteps]

\* the getSequence request and what follows it, up to the first step
CompleteLesson ==
    /\ pc = "lesson"
    /\ \E tree \in LessonTrees :
         /\ issued' = [issued EXCEPT !.getSequence = @ + 1]
         /\ visited' = Append(visited, [courseId |-> courses[ci].courseId,
                                        lesson |-> courses[ci].lessons[li]])
         /\ activities' = tree
         /\ sent' = <<>>
         /\ IF Len(tree) = 0
            THEN /\ Raise("ZeroDivisionError")
                 /\ UNCHANGED <<hours_per_activity, ai, si, ci, li>>
            ELSE /\ hours_per_activity' = HoursPerActivity(hours_per_lesson, tree)
                 /\ LET pos == SeekStep(tree, 1, 1)
                    IN IF pos[1] <= Len(tree)
                       THEN /\ pc' = "step"
                            /\ ai' = pos[1]
                            /\ si' = pos[2]
                            /\ UNCHANGED <<ci, li, exit_code, raised>>
                       ELSE LessonReturns
    \* the locals of the last call of _complete_step are gone
    /\ step' = NoStep
    /\ random_hours' = NoHours
    /\ plan' = None
    /\ time_to_answer' = NoHours
    /\ fi' = 1
    /\ success' = TRUE
    /\ stepState' = "none"
    /\ stepReqs' = <<>>
    /\ stepResps' = <<>>
    /\ UNCHANGED <<rep_status, hours_todo, rep_json, courses, hours_per_lesson,
                   version>>

(***************************************************************************)
(* _get_answer, _answer_success, _complete_step                            *)
(***************************************************************************)
\* int(hours * 60 * 60 * 1000), hours being held in milliseconds
DurationMs(hours) == hours.num \div hours.den

\* time_to_answer = hours / len(formatted_answers['answers'])
TimeToAnswer(hours, n) == [num |-> hours.num, den |-> hours.den * n]

\* the message of the AddProgress payload (attempt ids and timestamp left out)
_get_answer(v, hours, data) ==
    [courseId |-> data.course_id,
     sequenceId |-> data.sequence_id,
     version |-> v,
     activityId |-> data.activity_id,
     activityStepId |-> data.activity_step_id,
     answers |-> data.answers,
     score |-> 1,
     skip |-> FALSE,
     durationMs |-> DurationMs(hours)]

\* the new self.version and the value returned
_answer_success(v, response) ==
    IF response.errors
    THEN [version |-> (v + 1) % 2, ok |-> FALSE]
    ELSE [version |-> v, ok |-> TRUE]

\* a slip: the single-shot branch judged like a fragment
SingleShotSuccess_ByErrorList(response) == ~response.errors

\* return rep_answer.status_code == 200
SingleShotSuccess(response) == response.status = StatusOk

\* a slip: break out of the loop at the first rejected fragment
MoreFragments_StopOnFailure(n, answers, flag) == n < Len(answers) /\ flag

\* for answer in formatted_answers["answers"]: is there another one after the
\* n-th, whatever the flag so far
MoreFragments(n, answers, flag) == n < Len(answers)

\* the data dict of _complete_step
StepData(st, answers) ==
    [course_id |-> courses[ci].courseId,
     sequence_id |-> courses[ci].lessons[li].id,
     activity_id |-> activities[ai].activityId,
     activity_step_id |-> st.activityStepId,
     answers |-> answers]

\* what sent keeps of a payload: which submission it is
Submission(p) ==
    [courseId |-> p.courseId, sequenceId |-> p.sequenceId, activityId |-> p.activityId,
     activityStepId |-> p.activityStepId, answers |-> p.answers]

IsPlan(p) == {"fragmented", "answers", "title"} \subseteq DOMAIN p

CurrentStep == activities[ai].steps[si]

\* a step whose plan is not fragmented: one request, lines 293-303
CompleteStepSingle ==
    /\ pc = "step"
    /\ IsPlan(format_answers(CurrentStep))
    /\ ~format_answers(CurrentStep).fragmented
    /\ \E j \in 0..JitterSteps, response \in Responses :
         LET hours == RandomHours(hours_per_activity, j)
             p == format_answers(CurrentStep)
             payload == _get_answer(version, hours, StepData(CurrentStep, p.answers))
         IN /\ step' = CurrentStep
            /\ random_hours' = hours
            /\ plan' = p
            /\ stepReqs' = <<payload>>
            /\ stepResps' = <<response>>
            /\ sent' = Append(sent, Submission(payload))
            /\ issued' = [issued EXCEPT !.AddProgress = @ + 1]
            /\ success' = SingleShotSuccess(response)
            /\ stepState' = "returned"
            /\ StepReturns
    /\ UNCHANGED <<rep_status, hours_todo, rep_json, courses, hours_per_lesson,
                   version, visited, activities, hours_per_activity, time_to_answer,
                   fi>>

\* format_answers returned None: formatted_answers["fragmented"] raises, line 275
CompleteStepNoPlan ==
    /\ pc = "step"
    /\ ~IsPlan(format_answers(CurrentStep))
    /\ \E j \in 0..JitterSteps :
         random_hours' = RandomHours(hours_per_activity, j)
    /\ step' = CurrentStep
    /\ plan' = format_answers(CurrentStep)
    /\ stepReqs' = <<>>
    /\ stepResps' = <<>>
    /\ stepState' = "raised"
    /\ Raise("TypeError")
    /\ UNCHANGED <<issued, rep_status, hours_todo, rep_json, courses,
                   hours_per_lesson, version, ci, li, visited, lessonVars,
                   time_to_answer, fi, success>>

\* a fragmented plan: lines 276-277, up to the loop
BeginFragmented ==
    /\ pc = "step"
    /\ IsPlan(format_answers(CurrentStep))
    /\ format_answers(CurrentStep).fragmented
    /\ \E j \in 0..JitterSteps :
         LET hours == RandomHours(hours_per_activity, j)
             p == format_answers(CurrentStep)
         IN /\ step' = CurrentStep
            /\ random_hours' = hours
            /\ plan' = p
            /\ stepReqs' = <<>>
            /\ stepResps' = <<>>
            /\ success' = TRUE
            /\ fi' = 1
            /\ IF Len(p.answers) = 0
               THEN /\ Raise("ZeroDivisionError")
                    /\ stepState' = "raised"
                    /\ UNCHANGED <<time_to_answer, ci, li, ai, si>>
               ELSE /\ time_to_answer' = TimeToAnswer(hours, Len(p.answers))
                    /\ stepState' = "running"
                    /\ pc' = "fragment"
                    /\ UNCHANGED <<ci, li, ai, si, exit_code, raised>>
    /\ UNCHANGED <<issued, rep_status, hours_todo, rep_json, courses,
                   hours_per_lesson, version, visited, activities,
                   hours_per_activity, sent>>

\* one turn of the loop of lines 278-290; after the last one, line 291
SubmitFragment ==
    /\ pc = "fragment"
    /\ \E response \in Responses :
         LET payload == _get_answer(version, time_to_answer,
                                    StepData(step, <<plan.answers[fi]>>))
             \* success and self._answer_success(...): not called once success is False
             checked == IF success THEN _answer_success(version, response)
                        ELSE [version |-> version, ok |-> FALSE]
         IN /\ stepReqs' = Append(stepReqs, payload)
            /\ stepResps' = Append(stepResps, response)
            /\ sent' = Append(sent, Submission(payload))
            /\ issued' = [issued EXCEPT !.AddProgress = @ + 1]
            /\ success' = checked.ok
            /\ version' = checked.version
            /\ IF MoreFragments(fi, plan.answers, checked.ok)
               THEN /\ fi' = fi + 1
                    /\ UNCHANGED <<pc, stepState, ci, li, ai, si, exit_code, raised>>
               ELSE /\ fi' = fi
                    /\ stepState' = "returned"
                    /\ StepReturns
    /\ UNCHANGED <<rep_status, hours_todo, rep_json, courses, hours_per_lesson,
                   visited, activities, hours_per_activity, step, random_hours, plan,
                   time_to_answer>>

(***************************************************************************)
(* Specifications                                                          *)
(***************************************************************************)
Next ==
    \/ Authenticate
    \/ GetCourses(RunDiscovery)
    \/ CalculateHours
    \/ CompleteLesson
    \/ CompleteStepSingle
    \/ CompleteStepNoPlan
    \/ BeginFragmented
    \/ SubmitFragment

\* the whole run
Spec == Init /\ [][Next]_vars

NextDiscovery ==
    \/ Authenticate
    \/ GetCourses(AllDiscovery)
    \/ CalculateHours

\* the run up to the loops, over every discovery body within the bounds
SpecDiscovery == Init /\ [][NextDiscovery]_vars

(***************************************************************************)
(* What the claims speak of, stated without the operators above            *)
(***************************************************************************)
IsPrefix(s, t) == Len(s) <= Len(t) /\ SubSeq(t, 1, Len(s)) = s

IsVocabulary(st) ==
    /\ st.type = "card"
    /\ "additionalContent" \notin DOMAIN st.content[1]
    /\ "carousel" \in DOMAIN st.content[1]

IsUnhandledCard(st) ==
    /\ st.type = "card"
    /\ "additionalContent" \notin DOMAIN st.content[1]
    /\ "carousel" \notin DOMAIN st.content[1]

RECURSIVE CardsInOrder(_)
\* the cards of a carousel, row after row
CardsInOrder(carousel) ==
    IF Len(carousel) = 0 THEN <<>>
    ELSE CardsInOrder(SubSeq(carousel, 1, Len(carousel) - 1)) \o carousel[Len(carousel)]

\* the answers of each request a step is to be submitted with, in order
PlannedRequests(st) ==
    IF IsVocabulary(st)
    THEN LET cards == CardsInOrder(st.content[1].carousel)
         IN [i \in 1..Len(cards) |->
               <<[answer |-> "SS:" \o cards[i].id \o ":1:false", correct |-> TRUE]>>]
    ELSE IF IsUnhandledCard(st) THEN <<>>
    ELSE <<[i \in 1..Len(st.correct) |-> [answer |-> st.correct[i], correct |-> TRUE]]>>

StepSubmissions(cid, lid, aid, st) ==
    [i \in 1..Len(PlannedRequests(st)) |->
        [courseId |-> cid, sequenceId |-> lid, activityId |-> aid,
         activityStepId |-> st.activityStepId, answers |-> PlannedRequests(st)[i]]]

RECURSIVE ActivitySubmissions(_, _, _, _)
ActivitySubmissions(cid, lid, act, k) ==
    IF k > Len(act.steps) THEN <<>>
    ELSE StepSubmissions(cid, lid, act.activityId, act.steps[k])
         \o ActivitySubmissions(cid, lid, act, k + 1)

RECURSIVE LessonSubmissions(_, _, _, _)
\* every submission of a lesson, activities and steps in the server's order
LessonSubmissions(cid, lid, acts, k) ==
    IF k > Len(acts) THEN <<>>
    ELSE ActivitySubmissions(cid, lid, acts[k], 1)
         \o LessonSubmissions(cid, lid, acts, k + 1)

RECURSIVE LessonsInOrder(_, _)
\* the lessons to do: courses in discovery order, lessons in discovery order
LessonsInOrder(cs, k) ==
    IF k > Len(cs) THEN <<>>
    ELSE [i \in 1..Len(cs[k].lessons) |->
            [courseId |-> cs[k].courseId, lesson |-> cs[k].lessons[i]]]
         \o LessonsInOrder(cs, k + 1)

\* the places of the progress report that speak of lesson l of course c
ReportsOf(progress, c, l) ==
    {ij \in UNION {{<<i, j>> : j \in 1..Len(progress[i].sequences)} :
                     i \in 1..Len(progress)} :
        /\ progress[ij[1]].courseId = c
        /\ progress[ij[1]].sequences[ij[2]].id = l}

\* percentComplete of lesson l of course c: the report's value, 0 when absent
Percent(progress, c, l) ==
    IF ReportsOf(progress, c, l) = {} THEN 0
    ELSE LET first == CHOOSE ij \in ReportsOf(progress, c, l) :
                        \A other \in ReportsOf(progress, c, l) :
                            \/ ij[1] < other[1]
                            \/ ij[1] = other[1] /\ ij[2] <= other[2]
         IN progress[first[1]].sequences[first[2]].percentComplete

\* no lesson of any assigned course is eligible
NoneEligible(body) ==
    \A i \in 1..Len(body.assignedCourses) :
        \A j \in 1..Len(body.assignedCourses[i].sequences) :
            Percent(body.progress, body.assignedCourses[i].courseId,
                    body.assignedCourses[i].sequences[j].id) > Threshold

\* the discovery query was answered with success, and its body is still held
Discovered == rep_status.discovery = StatusOk /\ pc \in {"calculate_hours", "exit"}

(***************************************************************************)
(* Claims                                                                  *)
(***************************************************************************)
\* C1: every submission whose response has an error list changes the schema
\* version, every submission whose response has none leaves it alone, and nothing
\* but a submission changes it once it is set.
C1_VersionFlipsOnEveryErrorList ==
    [][/\ issued'.AddProgress = issued.AddProgress + 1 =>
            IF stepResps'[Len(stepResps')].errors
            THEN version' # version
            ELSE version' = version
       /\ (issued'.AddProgress = issued.AddProgress /\ version # -1) =>
            version' = version]_vars

\* C2: once set, the schema version is 1 or 2, and so is the version of every
\* payload.
C2_VersionIsOneOrTwo ==
    /\ version # -1 => version \in {1, 2}
    /\ \A i \in 1..Len(stepReqs) : stepReqs[i].version \in {1, 2}

\* C3: no response to a submission aborts the run or changes what is submitted:
\* the lessons are fetched in discovery order, each once; the submissions of a
\* lesson are those of its steps and fragments, in the server's order, each once;
\* when the run ends normally every lesson was done in full; and the run is only
\* ever ended early by an exception that a lesson's content raises (no activity,
\* no card, no plan), never by a response.
C3_RejectionsNeverAbort ==
    /\ IsPrefix(visited, LessonsInOrder(courses, 1))
    /\ visited # <<>> =>
         LET cur == visited[Len(visited)]
             all == LessonSubmissions(cur.courseId, cur.lesson.id, activities, 1)
         IN /\ IsPrefix(sent, all)
            /\ pc \in {"lesson", "done"} => sent = all
    /\ pc = "done" => visited = LessonsInOrder(courses, 1)
    /\ pc = "crash" =>
         \/ raised = "ZeroDivisionError" /\ activities = <<>>
         \/ /\ raised = "ZeroDivisionError"
            /\ IsVocabulary(step)
            /\ CardsInOrder(step.content[1].carousel) = <<>>
         \/ raised = "TypeError" /\ IsUnhandledCard(step)

\* C3 witness: a run that ended normally after three lessons, the last step of
\* which was refused by status, and in which submissions were rejected.
C3_Witness ==
    /\ pc = "done"
    /\ Len(visited) = 3
    /\ version = 0
    /\ ~success
    /\ stepResps[Len(stepResps)].status # StatusOk

\* C4: when discovery succeeds and no lesson is eligible, the run has exited with
\* status 0, no lesson was fetched, nothing was submitted, and the time budget
\* was never computed.
C4_NoEligibleWorkEndsQuietly ==
    (Discovered /\ NoneEligible(rep_json)) =>
        /\ pc = "exit"
        /\ exit_code = 0
        /\ issued.getSequence = 0
        /\ issued.AddProgress = 0
        /\ hours_per_lesson = NoHours
        /\ version = -1

\* C4 witness: courses are assigned, with lessons, and none is eligible.
C4_Witness ==
    /\ Discovered
    /\ NoneEligible(rep_json)
    /\ Len(rep_json.assignedCourses) = 2
    /\ Len(rep_json.assignedCourses[1].sequences) = 2
    /\ pc = "exit"

\* C5: a refused token request ends the run with exit status 1 before the
\* discovery query; a refused discovery query ends it with exit status 1 before
\* any lesson fetch or submission; an exit for want of eligible work has status 0.
C5_FatalFailuresExitNonZero ==
    /\ rep_status.token \notin {0, StatusOk} =>
         /\ pc = "exit" /\ exit_code = 1
         /\ issued.discovery = 0 /\ issued.getSequence = 0 /\ issued.AddProgress = 0
    /\ rep_status.discovery \notin {0, StatusOk} =>
         /\ pc = "exit" /\ exit_code = 1
         /\ issued.getSequence = 0 /\ issued.AddProgress = 0
    /\ (pc = "exit" /\ rep_status.discovery = StatusOk) => exit_code = 0

\* C5 witness: the token was granted and the discovery query refused.
C5_Witness ==
    /\ rep_status.token = StatusOk
    /\ rep_status.discovery = 500
    /\ pc = "exit"
    /\ exit_code = 1

\* the number of requests the plan of the current call is split over
Split == IF IsPlan(plan) /\ plan.fragmented THEN Len(plan.answers) ELSE 1

\* C6 as stated: the durationMs of every payload lies between hoursPerActivity
\* and 1.1 * hoursPerActivity (in ms), hoursPerActivity being
\* hours_todo / (lessons to do * activities of the lesson).
C6_DurationWithinJitterBound ==
    \A i \in 1..Len(stepReqs) :
        LET d == stepReqs[i].durationMs
            n == CountLessons(courses) * Len(activities)
        IN /\ d * n >= hours_todo
           /\ d * n * 10 <= 11 * hours_todo

\* C6 amended: with K = 1 for a single-shot submission and K the number of cards
\* for a fragment, durationMs is the truncation of a value between
\* hoursPerActivity / K and 1.1 * hoursPerActivity / K:
\* hoursPerActivity / K - 1 < durationMs <= 1.1 * hoursPerActivity / K.
C6_DurationWithinSplitJitterBound ==
    \A i \in 1..Len(stepReqs) :
        LET d == stepReqs[i].durationMs
            n == CountLessons(courses) * Len(activities)
        IN /\ (d + 1) * Split * n > hours_todo
           /\ d * Split * n * 10 <= 11 * hours_todo

\* C6 witness: both fragments of a two-card step were sent, each with less than
\* hoursPerActivity.
C6_Witness ==
    /\ stepState = "returned"
    /\ Split = 2
    /\ Len(stepReqs) = 2
    /\ \A i \in 1..2 :
         stepReqs[i].durationMs * CountLessons(courses) * Len(activities)
            < hours_todo

\* C7: the flag _complete_step returns is, for a vocabulary step, that no
\* response to its fragments had an error list, whatever their status; for any
\* other step, that the status of its one response was 200, whatever its body.
C7_StepSuccessFlag ==
    stepState = "returned" =>
        IF IsVocabulary(step)
        THEN success = (\A i \in 1..Len(stepResps) : ~stepResps[i].errors)
        ELSE success = (stepResps[1].status = StatusOk)

\* C7 witness: a two-card step returned true although a fragment's status was
\* not 200.
C7_Witness ==
    /\ stepState = "returned"
    /\ IsVocabulary(step)
    /\ Len(stepResps) = 2
    /\ stepResps[1].status # StatusOk
    /\ \A i \in 1..2 : ~stepResps[i].errors
    /\ success

\* C8: a call of _complete_step posts, for a vocabulary step of K cards, K
\* requests of one answer each, the encoded cards in carousel order; for a demo,
\* multipleChoice, sequencing, cloze or unrecognized step, one request with all
\* the correct answers in order; whatever the responses.  (While the call runs,
\* or when it raised, the requests so far are the first of these.)
C8_RequestsOfAStep ==
    LET posted == [i \in 1..Len(stepReqs) |-> stepReqs[i].answers]
    IN /\ stepState = "returned" => posted = PlannedRequests(step)
       /\ stepState \in {"running", "raised"} => IsPrefix(posted, PlannedRequests(step))
       /\ (stepState = "raised" /\ IsVocabulary(step)) =>
            Len(posted) = Len(CardsInOrder(step.content[1].carousel))
       /\ (stepState # "none" /\ IsVocabulary(step)) =>
            \A i \in 1..Len(posted) : Len(posted[i]) = 1

\* C8 witness: a step of two cards in two rows returned after two requests, the
\* first of which was rejected.
C8_Witness ==
    /\ stepState = "returned"
    /\ IsVocabulary(step)
    /\ Len(step.content[1].carousel) = 2
    /\ Len(stepReqs) = 2
    /\ stepResps[1].errors
    /\ stepResps[1].status # StatusOk

\* C9: format_answers returns a plan with fields fragmented, answers and title
\* for every step, and _complete_step never ends the run for want of one.
C9_FormatAnswersTotal ==
    stepState # "none" => (IsPlan(plan) /\ raised # "TypeError")

\* C10: the courses discovery returns are the assigned courses that have a lesson
\* with percentComplete <= threshold (0 when the course's report does not list
\* the lesson), in the server's order, each with exactly those lessons, in the
\* server's order.
C10_DiscoveryReturnsEligibleWork ==
    Discovered =>
        LET assigned == rep_json.assignedCourses
            Eligible(i, j) ==
                Percent(rep_json.progress, assigned[i].courseId,
                        assigned[i].sequences[j].id) <= Threshold
            Kept(i) == {j \in 1..Len(assigned[i].sequences) : Eligible(i, j)}
            KeptCourses == {i \in 1..Len(assigned) : Kept(i) # {}}
        IN /\ Len(courses) = Cardinality(KeptCourses)
           /\ \A k \in 1..Len(courses) :
                \E i \in KeptCourses :
                    /\ Cardinality({h \in KeptCourses : h < i}) = k - 1
                    /\ courses[k].courseId = assigned[i].courseId
                    /\ Len(courses[k].lessons) = Cardinality(Kept(i))
                    /\ \A m \in 1..Len(courses[k].lessons) :
                         \E j \in Kept(i) :
                            /\ Cardinality({h \in Kept(i) : h < j}) = m - 1
                            /\ courses[k].lessons[m].id = assigned[i].sequences[j].id

\* C10 witness: of two assigned courses one is dropped; of the other's two
\* lessons the one reported at the threshold is kept and the other is not.
C10_Witness ==
    /\ pc = "calculate_hours"
    /\ Len(rep_json.assignedCourses) = 2
    /\ Len(rep_json.assignedCourses[1].sequences) = 2
    /\ Len(rep_json.assignedCourses[2].sequences) = 2
    /\ Len(courses) = 1
    /\ Len(courses[1].lessons) = 1
    /\ courses[1].courseId = rep_json.assignedCourses[2].courseId
    /\ Percent(rep_json.progress, courses[1].courseId, courses[1].lessons[1].id)
         = Threshold
====
